---------------------------- MODULE Spec2Model ----------------------------
(***************************************************************************)
(* Model of ctk/utils/output_filter.py: the four-stage output filter       *)
(* (preprocess, line filter, deduplicate, postprocess) and its helpers.    *)
(*                                                                         *)
(* A character is a TLA+ string; a printable ASCII character stands for    *)
(* itself and the others are named: "ESC" (0x1b), "BEL" (0x07), "VT"       *)
(* (0x0b), "BQ" (the backquote), "U250C" ... (the box-drawing code         *)
(* points).  A Python str is the sequence of its characters, so "ab" is    *)
(* <<"a", "b">>, and a list of str is a sequence of such sequences.        *)
(* Positions in a str are Python's: 0-based, position p lies before        *)
(* character s[p + 1] of the sequence.                                     *)
(***************************************************************************)
EXTENDS Integers, Sequences, FiniteSets, TLC

VARIABLES
    category,        \* filter_output: the category argument
    output,          \* filter_output: the output argument / preprocessed text
    lines,           \* the list of lines the current stage reads
    filtered_lines,  \* filter_output: lines kept by the line filter
    i,               \* loop position of the stage that is scanning (0-based)
    similar_out,     \* deduplicate_similar_lines: its result list
    in_failure,      \* compact_pytest_output: inside a failure block
    compacted,       \* compactor under scan: its result list
    result,          \* filter_output: the result string
    pass,            \* 1 on the first call, 2 when called on its own result
    first_result,    \* the string the first call returned
    ansi,            \* results for an ANSI-wrapped text and for the bare text
    pc               \* position in the code

vars == <<category, output, lines, filtered_lines, i, similar_out, in_failure,
          compacted, result, pass, first_result, ansi, pc>>

-----------------------------------------------------------------------------
(* Characters                                                              *)

LowerSeq ==
    <<"a", "b", "c", "d", "e", "f", "g", "h", "i", "j", "k", "l", "m",
      "n", "o", "p", "q", "r", "s", "t", "u", "v", "w", "x", "y", "z">>

UpperSeq ==
    <<"A", "B", "C", "D", "E", "F", "G", "H", "I", "J", "K", "L", "M",
      "N", "O", "P", "Q", "R", "S", "T", "U", "V", "W", "X", "Y", "Z">>

LowerChars == {LowerSeq[n] : n \in DOMAIN LowerSeq}

UpperChars == {UpperSeq[n] : n \in DOMAIN UpperSeq}

DigitSeq == <<"0", "1", "2", "3", "4", "5", "6", "7", "8", "9">>

DigitChars == {DigitSeq[n] : n \in DOMAIN DigitSeq}

HexLowerChars == {"a", "b", "c", "d", "e", "f"}

\* The characters of the model's alphabet for which str.isspace() holds;
\* they are also the characters the regex class \s matches.
WhitespaceChars == {" ", "\t", "\n", "\r", "\f", "VT"}

\* The regex class \w.
WordChars == LowerChars \cup UpperChars \cup DigitChars \cup {"_"}

UpperIndex == [c \in UpperChars |-> CHOOSE n \in DOMAIN UpperSeq : UpperSeq[n] = c]

LowerIndex == [c \in LowerChars |-> CHOOSE n \in DOMAIN LowerSeq : LowerSeq[n] = c]

\* str.lower() on one character.
lower_char(c) == IF c \in UpperChars THEN LowerSeq[UpperIndex[c]] ELSE c

\* The other case of a cased character (re.IGNORECASE compares both cases).
swapcase_char(c) ==
    IF c \in UpperChars THEN LowerSeq[UpperIndex[c]]
    ELSE IF c \in LowerChars THEN UpperSeq[LowerIndex[c]]
    ELSE c

\* str.lower()
lower(s) == [n \in DOMAIN s |-> lower_char(s[n])]

\* not s.strip(): s is empty or holds whitespace only
IsBlank(s) == \A n \in DOMAIN s : s[n] \in WhitespaceChars

\* str.rstrip()
rstrip(s) ==
    IF IsBlank(s) THEN <<>>
    ELSE LET last == CHOOSE n \in DOMAIN s :
                         /\ s[n] \notin WhitespaceChars
                         /\ \A m \in (n + 1)..Len(s) : s[m] \in WhitespaceChars
         IN  SubSeq(s, 1, last)

\* str.lstrip()
lstrip(s) ==
    IF IsBlank(s) THEN <<>>
    ELSE LET head == CHOOSE n \in DOMAIN s :
                         /\ s[n] \notin WhitespaceChars
                         /\ \A m \in 1..(n - 1) : s[m] \in WhitespaceChars
         IN  SubSeq(s, head, Len(s))

\* str.strip()
strip(s) == lstrip(rstrip(s))

\* s.startswith(w)
startswith(s, w) == Len(w) <= Len(s) /\ SubSeq(s, 1, Len(w)) = w

\* w in s  (substring test)
contains(s, w) ==
    \E p \in 0..(Len(s) - Len(w)) : SubSeq(s, p + 1, p + Len(w)) = w

\* str.split('\n'): the pieces between the newlines, always at least one.
split(s) ==
    LET cuts == {p \in DOMAIN s : s[p] = "\n"}
        \* the position of the k-th newline; 0 before the text, Len + 1 after
        cut(k) == IF k = 0 THEN 0
                  ELSE IF k > Cardinality(cuts) THEN Len(s) + 1
                  ELSE CHOOSE p \in cuts : Cardinality({q \in cuts : q < p}) = k - 1
    IN  [k \in 1..(Cardinality(cuts) + 1) |-> SubSeq(s, cut(k - 1) + 1, cut(k) - 1)]

RECURSIVE join(_)
\* '\n'.join(ls)
join(ls) ==
    IF Len(ls) = 0 THEN <<>>
    ELSE IF Len(ls) = 1 THEN ls[1]
    ELSE ls[1] \o <<"\n">> \o join(Tail(ls))

RECURSIVE decimal(_)
\* str(n) for n >= 0, as f"{n}" formats it.
decimal(n) ==
    IF n < 10 THEN <<DigitSeq[n + 1]>>
    ELSE Append(decimal(n \div 10), DigitSeq[(n % 10) + 1])

-----------------------------------------------------------------------------
(* Regular expressions (module re).  A pattern is a tree; Match follows    *)
(* re's backtracking search: alternatives in order, repetition greedy.     *)

Str(cs) == [op |-> "str", cs |-> cs]

In(cs) == [op |-> "in", neg |-> FALSE, cs |-> cs]

NotIn(cs) == [op |-> "in", neg |-> TRUE, cs |-> cs]

Ws == In(WhitespaceChars)

NotWs == NotIn(WhitespaceChars)

Digit == In(DigitChars)

\* '.' matches every character but the newline.
AnyCh == NotIn({"\n"})

Rep(r, lo, hi) == [op |-> "rep", r |-> r, lo |-> lo, hi |-> hi]

\* {lo,}: a repetition without an upper limit has hi = -1.
AtLeast(r, lo) == Rep(r, lo, -1)

Star(r) == AtLeast(r, 0)

Plus(r) == AtLeast(r, 1)

Opt(r) == Rep(r, 0, 1)

Cat(rs) == [op |-> "cat", rs |-> rs]

Alt(rs) == [op |-> "alt", rs |-> rs]

Bol == [op |-> "bol"]

Eol == [op |-> "eol"]

Wb == [op |-> "wb"]

\* Whether pattern character a matches text character c.
CharEq(a, c, ic) == a = c \/ (ic /\ swapcase_char(a) = c)

\* Whether character c is in the class r.
InClass(r, c, ic) ==
    LET hit == c \in r.cs \/ (ic /\ swapcase_char(c) \in r.cs)
    IN  IF r.neg THEN ~hit ELSE hit

\* Whether the repeated item r, a class or a one-character literal, matches
\* character c.  (Every repetition in the patterns repeats such an item.)
ItemMatches(r, c, ic) ==
    IF r.op = "str" THEN CharEq(r.cs[1], c, ic) ELSE InClass(r, c, ic)

\* \b at position p
AtWordBoundary(s, p) ==
    (p > 0 /\ s[p] \in WordChars) # (p < Len(s) /\ s[p + 1] \in WordChars)

\* Whether the pattern r, one that takes no alternative (a literal, a
\* class, ^, $ or \b), matches at position p.
StepMatches(r, s, p, ic) ==
    CASE r.op = "str" ->
           /\ p + Len(r.cs) <= Len(s)
           /\ \A n \in DOMAIN r.cs : CharEq(r.cs[n], s[p + n], ic)
      [] r.op = "in" -> p < Len(s) /\ InClass(r, s[p + 1], ic)
      [] r.op = "bol" -> p = 0
      [] r.op = "eol" -> p = Len(s)
      [] r.op = "wb" -> AtWordBoundary(s, p)

\* The number of characters the pattern r of StepMatches takes.
StepWidth(r) ==
    IF r.op = "str" THEN Len(r.cs) ELSE IF r.op = "in" THEN 1 ELSE 0

\* The most repetitions of the item of the repetition r that match from
\* position p on, at most r.hi.
GreedyRun(r, s, p, ic) ==
    LET room == IF r.hi < 0 \/ r.hi > Len(s) - p
                THEN Len(s) - p ELSE r.hi
    IN  CHOOSE m \in 0..room :
            /\ \A n \in 1..m : ItemMatches(r.r, s[p + n], ic)
            /\ m = room \/ ~ItemMatches(r.r, s[p + m + 1], ic)

\* The ways a repetition goes on: with run characters taken, then one fewer
\* at a time down to lo (greedy), each as <<the patterns left, the position>>.
RepeatWays(rest, p, lo, run) ==
    [k \in 1..(run - lo + 1) |-> <<rest, p + run - (k - 1)>>]

\* The ways to go on after the first pattern r of a list at position p, in
\* re's order of preference, each as <<the patterns left, the position>>:
\* an alternation tries its branches in order, a repetition is greedy.
Continuations(r, rest, s, p, ic) ==
    CASE r.op = "cat" -> << <<r.rs \o rest, p>> >>
      [] r.op = "alt" -> [k \in DOMAIN r.rs |-> <<(<<r.rs[k]>> \o rest), p>>]
      [] r.op = "rep" -> RepeatWays(rest, p, r.lo, GreedyRun(r, s, p, ic))
      [] OTHER ->
           IF StepMatches(r, s, p, ic)
           THEN << <<rest, p + StepWidth(r)>> >>
           ELSE <<>>

\* The first of the match ends in ends (in order of preference) that is a
\* match; -1 when none is.
FirstHit(ends) ==
    LET hits == {k \in DOMAIN ends : ends[k] # -1}
    IN  IF hits = {} THEN -1
        ELSE ends[CHOOSE k \in hits : \A n \in hits : k <= n]

RECURSIVE Match(_, _, _, _)
RECURSIVE MatchWays(_, _, _)

\* The end of the first match, in re's order of preference, of the patterns
\* rs one after the other from position p of s; -1 when there is none.
Match(rs, s, p, ic) ==
    IF Len(rs) = 0 THEN p
    ELSE FirstHit(MatchWays(Continuations(Head(rs), Tail(rs), s, p, ic), s, ic))

\* The match end of each way to go on.
MatchWays(ways, s, ic) ==
    [k \in DOMAIN ways |-> Match(ways[k][1], s, ways[k][2], ic)]

\* re.match(r, s): the end of the match at position 0, or -1.
re_match(r, s, ic) == Match(<<r>>, s, 0, ic)

\* The positions a match of r can start at: a pattern that begins with ^
\* matches at position 0 or nowhere (no re.MULTILINE).
search_positions(r, s) ==
    IF r.op = "cat" /\ Len(r.rs) > 0 /\ Head(r.rs).op = "bol" THEN {0}
    ELSE 0..Len(s)

\* re.search(r, s) is not None
re_search(r, s, ic) ==
    \E p \in search_positions(r, s) : Match(<<r>>, s, p, ic) # -1

\* The match end at each position from p on.
match_ends(r, s, p, ic) == [q \in p..Len(s) |-> Match(<<r>>, s, q, ic)]

\* The leftmost position of ends with a match that satisfies nonempty (a
\* match of at least one character) or any match, as <<start, end>>;
\* <<-1, -1>> when there is none.
leftmost(ends, nonempty) ==
    LET found == {q \in DOMAIN ends :
                      IF nonempty THEN ends[q] > q ELSE ends[q] # -1}
    IN  IF found = {} THEN <<-1, -1>>
        ELSE LET q == CHOOSE x \in found : \A y \in found : x <= y
             IN  <<q, ends[q]>>

\* The start of the match re.search(r, s) returns.
search_start(r, s, ic) == leftmost(match_ends(r, s, 0, ic), FALSE)[1]

RECURSIVE sub_from(_, _, _, _, _)
RECURSIVE sub_match(_, _, _, _, _, _)

\* re.sub(r, repl, s) from position p on.  keep is the number of characters
\* of each match that the replacement keeps (none for repl = '').  An empty
\* match is replaced by nothing and changes nothing.
sub_from(r, s, p, keep, ic) ==
    sub_match(r, s, p, keep, ic, leftmost(match_ends(r, s, p, ic), TRUE))

\* With m the next match from p on: the text up to the match, what the
\* replacement keeps of it, and the same from the end of the match.
sub_match(r, s, p, keep, ic, m) ==
    IF m[1] = -1 THEN SubSeq(s, p + 1, Len(s))
    ELSE SubSeq(s, p + 1, m[1]) \o SubSeq(s, m[1] + 1, m[1] + keep)
         \o sub_from(r, s, m[2], keep, ic)

\* re.sub(r, '', s)
re_sub(r, s) == sub_from(r, s, 0, 0, FALSE)

-----------------------------------------------------------------------------
(* The pattern tables.  The regex source is given above each tree.         *)

\* Universal skip patterns
SKIP_PATTERNS ==
    <<
    \* ^\s*$
    Cat(<<Bol, Star(Ws), Eol>>),
    \* ^=+$
    Cat(<<Bol, Plus(Str(<<"=">>)), Eol>>),
    \* ^-+$
    Cat(<<Bol, Plus(Str(<<"-">>)), Eol>>),
    \* ^\++$
    Cat(<<Bol, Plus(Str(<<"+">>)), Eol>>),
    \* ^\*+$
    Cat(<<Bol, Plus(Str(<<"*">>)), Eol>>),
    \* ^~+$
    Cat(<<Bol, Plus(Str(<<"~">>)), Eol>>),
    \* ^#+$
    Cat(<<Bol, Plus(Str(<<"#">>)), Eol>>),
    \* ^\s*(Using|Fetching|Downloading|Installing|Building|Compiling|Processing|Analyzing|Checking|Validating|Verifying|Resolving|Preparing|Generating|Creating|Updating|Removing|Cleaning|Unpacking|Configuring|Setting up)
    Cat(<<Bol, Star(Ws), Alt(<<Str(<<"U", "s", "i", "n", "g">>), Str(<<"F",
        "e", "t", "c", "h", "i", "n", "g">>), Str(<<"D", "o", "w", "n", "l",
        "o", "a", "d", "i", "n", "g">>), Str(<<"I", "n", "s", "t", "a", "l",
        "l", "i", "n", "g">>), Str(<<"B", "u", "i", "l", "d", "i", "n",
        "g">>), Str(<<"C", "o", "m", "p", "i", "l", "i", "n", "g">>),
        Str(<<"P", "r", "o", "c", "e", "s", "s", "i", "n", "g">>), Str(<<"A",
        "n", "a", "l", "y", "z", "i", "n", "g">>), Str(<<"C", "h", "e", "c",
        "k", "i", "n", "g">>), Str(<<"V", "a", "l", "i", "d", "a", "t", "i",
        "n", "g">>), Str(<<"V", "e", "r", "i", "f", "y", "i", "n", "g">>),
        Str(<<"R", "e", "s", "o", "l", "v", "i", "n", "g">>), Str(<<"P", "r",
        "e", "p", "a", "r", "i", "n", "g">>), Str(<<"G", "e", "n", "e", "r",
        "a", "t", "i", "n", "g">>), Str(<<"C", "r", "e", "a", "t", "i", "n",
        "g">>), Str(<<"U", "p", "d", "a", "t", "i", "n", "g">>), Str(<<"R",
        "e", "m", "o", "v", "i", "n", "g">>), Str(<<"C", "l", "e", "a", "n",
        "i", "n", "g">>), Str(<<"U", "n", "p", "a", "c", "k", "i", "n",
        "g">>), Str(<<"C", "o", "n", "f", "i", "g", "u", "r", "i", "n",
        "g">>), Str(<<"S", "e", "t", "t", "i", "n", "g", " ", "u",
        "p">>)>>)>>),
    \* ^\s*\d+%\s*\|.*\|
    Cat(<<Bol, Star(Ws), Plus(Digit), Str(<<"%">>), Star(Ws), Str(<<"|">>),
        Star(AnyCh), Str(<<"|">>)>>),
    \* ^\s*\d+%\s+complete
    Cat(<<Bol, Star(Ws), Plus(Digit), Str(<<"%">>), Plus(Ws), Str(<<"c", "o",
        "m", "p", "l", "e", "t", "e">>)>>),
    \* ^\s*\[\d+/\d+\]
    Cat(<<Bol, Star(Ws), Str(<<"[">>), Plus(Digit), Str(<<"/">>), Plus(Digit),
        Str(<<"]">>)>>),
    \* ^\s*WARN\s*:
    Cat(<<Bol, Star(Ws), Str(<<"W", "A", "R", "N">>), Star(Ws),
        Str(<<":">>)>>),
    \* ^\s*INFO\s*:
    Cat(<<Bol, Star(Ws), Str(<<"I", "N", "F", "O">>), Star(Ws),
        Str(<<":">>)>>),
    \* ^\s*DEBUG\s*:
    Cat(<<Bol, Star(Ws), Str(<<"D", "E", "B", "U", "G">>), Star(Ws),
        Str(<<":">>)>>),
    \* ^\s*TRACE\s*:
    Cat(<<Bol, Star(Ws), Str(<<"T", "R", "A", "C", "E">>), Star(Ws),
        Str(<<":">>)>>),
    \* ^\s*notice\s*:
    Cat(<<Bol, Star(Ws), Str(<<"n", "o", "t", "i", "c", "e">>), Star(Ws),
        Str(<<":">>)>>),
    \* ^\s*verbose\s*:
    Cat(<<Bol, Star(Ws), Str(<<"v", "e", "r", "b", "o", "s", "e">>), Star(Ws),
        Str(<<":">>)>>),
    \* ^\s*Done in\s+\d+
    Cat(<<Bol, Star(Ws), Str(<<"D", "o", "n", "e", " ", "i", "n">>), Plus(Ws),
        Plus(Digit)>>),
    \* ^\s*Completed in\s+\d+
    Cat(<<Bol, Star(Ws), Str(<<"C", "o", "m", "p", "l", "e", "t", "e", "d",
        " ", "i", "n">>), Plus(Ws), Plus(Digit)>>),
    \* ^\s*Finished in\s+\d+
    Cat(<<Bol, Star(Ws), Str(<<"F", "i", "n", "i", "s", "h", "e", "d", " ",
        "i", "n">>), Plus(Ws), Plus(Digit)>>),
    \* ^\s*Took\s+\d+
    Cat(<<Bol, Star(Ws), Str(<<"T", "o", "o", "k">>), Plus(Ws), Plus(Digit)>>),
    \* ^\s*Time:\s+\d+
    Cat(<<Bol, Star(Ws), Str(<<"T", "i", "m", "e", ":">>), Plus(Ws),
        Plus(Digit)>>),
    \* ^\s*Duration:\s+\d+
    Cat(<<Bol, Star(Ws), Str(<<"D", "u", "r", "a", "t", "i", "o", "n", ":">>),
        Plus(Ws), Plus(Digit)>>),
    \* ^\s*real\s+\d+m\d+
    Cat(<<Bol, Star(Ws), Str(<<"r", "e", "a", "l">>), Plus(Ws), Plus(Digit),
        Str(<<"m">>), Plus(Digit)>>),
    \* ^\s*user\s+\d+m\d+
    Cat(<<Bol, Star(Ws), Str(<<"u", "s", "e", "r">>), Plus(Ws), Plus(Digit),
        Str(<<"m">>), Plus(Digit)>>),
    \* ^\s*sys\s+\d+m\d+
    Cat(<<Bol, Star(Ws), Str(<<"s", "y", "s">>), Plus(Ws), Plus(Digit),
        Str(<<"m">>), Plus(Digit)>>),
    \* ^\s*\.{3,}$
    Cat(<<Bol, Star(Ws), AtLeast(Str(<<".">>), 3), Eol>>),
    \* ^\s*please wait
    Cat(<<Bol, Star(Ws), Str(<<"p", "l", "e", "a", "s", "e", " ", "w", "a",
        "i", "t">>)>>),
    \* ^\s*loading
    Cat(<<Bol, Star(Ws), Str(<<"l", "o", "a", "d", "i", "n", "g">>)>>),
    \* ^\s*spinning up
    Cat(<<Bol, Star(Ws), Str(<<"s", "p", "i", "n", "n", "i", "n", "g", " ",
        "u", "p">>)>>),
    \* ^\s*starting
    Cat(<<Bol, Star(Ws), Str(<<"s", "t", "a", "r", "t", "i", "n", "g">>)>>),
    \* ^\s*initializing
    Cat(<<Bol, Star(Ws), Str(<<"i", "n", "i", "t", "i", "a", "l", "i", "z",
        "i", "n", "g">>)>>),
    \* ^\s*running
    Cat(<<Bol, Star(Ws), Str(<<"r", "u", "n", "n", "i", "n", "g">>)>>),
    \* ^npm warn
    Cat(<<Bol, Str(<<"n", "p", "m", " ", "w", "a", "r", "n">>)>>),
    \* ^npm notice
    Cat(<<Bol, Str(<<"n", "p", "m", " ", "n", "o", "t", "i", "c", "e">>)>>),
    \* ^yarn warn
    Cat(<<Bol, Str(<<"y", "a", "r", "n", " ", "w", "a", "r", "n">>)>>),
    \* ^pnpm warn
    Cat(<<Bol, Str(<<"p", "n", "p", "m", " ", "w", "a", "r", "n">>)>>),
    \* ^warning:
    Cat(<<Bol, Str(<<"w", "a", "r", "n", "i", "n", "g", ":">>)>>),
    \* ^deprecation
    Cat(<<Bol, Str(<<"d", "e", "p", "r", "e", "c", "a", "t", "i", "o",
        "n">>)>>),
    \* ^deprecated
    Cat(<<Bol, Str(<<"d", "e", "p", "r", "e", "c", "a", "t", "e", "d">>)>>),
    \* up to date
    Str(<<"u", "p", " ", "t", "o", " ", "d", "a", "t", "e">>),
    \* already installed
    Str(<<"a", "l", "r", "e", "a", "d", "y", " ", "i", "n", "s", "t", "a",
        "l", "l", "e", "d">>),
    \* nothing to do
    Str(<<"n", "o", "t", "h", "i", "n", "g", " ", "t", "o", " ", "d", "o">>),
    \* no changes
    Str(<<"n", "o", " ", "c", "h", "a", "n", "g", "e", "s">>),
    \* skipping
    Str(<<"s", "k", "i", "p", "p", "i", "n", "g">>),
    \* ^\s*ok\s*$
    Cat(<<Bol, Star(Ws), Str(<<"o", "k">>), Star(Ws), Eol>>),
    \* ^\s*success\s*$
    Cat(<<Bol, Star(Ws), Str(<<"s", "u", "c", "c", "e", "s", "s">>), Star(Ws),
        Eol>>),
    \* ^\s*pass\s*$
    Cat(<<Bol, Star(Ws), Str(<<"p", "a", "s", "s">>), Star(Ws), Eol>>),
    \* ^\s*passed\s*$
    Cat(<<Bol, Star(Ws), Str(<<"p", "a", "s", "s", "e", "d">>), Star(Ws),
        Eol>>),
    \* ^\s*fail\s*$
    Cat(<<Bol, Star(Ws), Str(<<"f", "a", "i", "l">>), Star(Ws), Eol>>),
    \* ^\s*failed\s*$
    Cat(<<Bol, Star(Ws), Str(<<"f", "a", "i", "l", "e", "d">>), Star(Ws),
        Eol>>),
    \* ^\s*error:\s*$
    Cat(<<Bol, Star(Ws), Str(<<"e", "r", "r", "o", "r", ":">>), Star(Ws),
        Eol>>),
    \* ^\s*funding\s+message
    Cat(<<Bol, Star(Ws), Str(<<"f", "u", "n", "d", "i", "n", "g">>), Plus(Ws),
        Str(<<"m", "e", "s", "s", "a", "g", "e">>)>>),
    \* ^\s*audited\b
    Cat(<<Bol, Star(Ws), Str(<<"a", "u", "d", "i", "t", "e", "d">>), Wb>>),
    \* Compiling\s+
    Cat(<<Str(<<"C", "o", "m", "p", "i", "l", "i", "n", "g">>), Plus(Ws)>>),
    \* Finished\s+dev
    Cat(<<Str(<<"F", "i", "n", "i", "s", "h", "e", "d">>), Plus(Ws),
        Str(<<"d", "e", "v">>)>>),
    \* Running\s+unittests
    Cat(<<Str(<<"R", "u", "n", "n", "i", "n", "g">>), Plus(Ws), Str(<<"u",
        "n", "i", "t", "t", "e", "s", "t", "s">>)>>),
    \* ^\s*test\s+result:\s+ok
    Cat(<<Bol, Star(Ws), Str(<<"t", "e", "s", "t">>), Plus(Ws), Str(<<"r",
        "e", "s", "u", "l", "t", ":">>), Plus(Ws), Str(<<"o", "k">>)>>),
    \* ^\s*\d+\s+passed
    Cat(<<Bol, Star(Ws), Plus(Digit), Plus(Ws), Str(<<"p", "a", "s", "s", "e",
        "d">>)>>),
    \* ^\s*\d+\s+tests?\s+ran
    Cat(<<Bol, Star(Ws), Plus(Digit), Plus(Ws), Str(<<"t", "e", "s", "t">>),
        Opt(Str(<<"s">>)), Plus(Ws), Str(<<"r", "a", "n">>)>>),
    \* ^See \`
    Cat(<<Bol, Str(<<"S", "e", "e", " ", "BQ">>)>>),
    \* ^Run \`
    Cat(<<Bol, Str(<<"R", "u", "n", " ", "BQ">>)>>),
    \* ^Try \`
    Cat(<<Bol, Str(<<"T", "r", "y", " ", "BQ">>)>>)
    >>

\* Patterns to skip except for the git category
GIT_SENSITIVE_PATTERNS ==
    <<
    \* ^\s*(created|deleted|modified|changed|added|removed|updated|copied|moved|renamed):
    Cat(<<Bol, Star(Ws), Alt(<<Str(<<"c", "r", "e", "a", "t", "e", "d">>),
        Str(<<"d", "e", "l", "e", "t", "e", "d">>), Str(<<"m", "o", "d", "i",
        "f", "i", "e", "d">>), Str(<<"c", "h", "a", "n", "g", "e", "d">>),
        Str(<<"a", "d", "d", "e", "d">>), Str(<<"r", "e", "m", "o", "v", "e",
        "d">>), Str(<<"u", "p", "d", "a", "t", "e", "d">>), Str(<<"c", "o",
        "p", "i", "e", "d">>), Str(<<"m", "o", "v", "e", "d">>), Str(<<"r",
        "e", "n", "a", "m", "e", "d">>)>>), Str(<<":">>)>>)
    >>

\* CATEGORY_PATTERNS["docker"]
CATEGORY_PATTERNS_docker ==
    <<
    \* ^\s*CONTAINER ID
    Cat(<<Bol, Star(Ws), Str(<<"C", "O", "N", "T", "A", "I", "N", "E", "R",
        " ", "I", "D">>)>>),
    \* ^\s*IMAGE\s+COMMAND
    Cat(<<Bol, Star(Ws), Str(<<"I", "M", "A", "G", "E">>), Plus(Ws),
        Str(<<"C", "O", "M", "M", "A", "N", "D">>)>>),
    \* ^\s*NAMESPACE
    Cat(<<Bol, Star(Ws), Str(<<"N", "A", "M", "E", "S", "P", "A", "C",
        "E">>)>>)
    >>

\* CATEGORY_PATTERNS["docker-compose"]
CATEGORY_PATTERNS_docker_compose ==
    <<
    \* ^\s*NAME\s+COMMAND
    Cat(<<Bol, Star(Ws), Str(<<"N", "A", "M", "E">>), Plus(Ws), Str(<<"C",
        "O", "M", "M", "A", "N", "D">>)>>),
    \* Network\s+\S+\s+created
    Cat(<<Str(<<"N", "e", "t", "w", "o", "r", "k">>), Plus(Ws), Plus(NotWs),
        Plus(Ws), Str(<<"c", "r", "e", "a", "t", "e", "d">>)>>),
    \* Container\s+\S+\s+(Started|Created)
    Cat(<<Str(<<"C", "o", "n", "t", "a", "i", "n", "e", "r">>), Plus(Ws),
        Plus(NotWs), Plus(Ws), Alt(<<Str(<<"S", "t", "a", "r", "t", "e",
        "d">>), Str(<<"C", "r", "e", "a", "t", "e", "d">>)>>)>>)
    >>

\* CATEGORY_PATTERNS["nodejs"]
CATEGORY_PATTERNS_nodejs ==
    <<
    \* ^\s*up to date
    Cat(<<Bol, Star(Ws), Str(<<"u", "p", " ", "t", "o", " ", "d", "a", "t",
        "e">>)>>),
    \* ^\s*audited
    Cat(<<Bol, Star(Ws), Str(<<"a", "u", "d", "i", "t", "e", "d">>)>>),
    \* ^\s*funding
    Cat(<<Bol, Star(Ws), Str(<<"f", "u", "n", "d", "i", "n", "g">>)>>),
    \* ^added \d+ packages
    Cat(<<Bol, Str(<<"a", "d", "d", "e", "d", " ">>), Plus(Digit), Str(<<" ",
        "p", "a", "c", "k", "a", "g", "e", "s">>)>>),
    \* ^removed \d+ packages
    Cat(<<Bol, Str(<<"r", "e", "m", "o", "v", "e", "d", " ">>), Plus(Digit),
        Str(<<" ", "p", "a", "c", "k", "a", "g", "e", "s">>)>>),
    \* ^changed \d+ packages
    Cat(<<Bol, Str(<<"c", "h", "a", "n", "g", "e", "d", " ">>), Plus(Digit),
        Str(<<" ", "p", "a", "c", "k", "a", "g", "e", "s">>)>>),
    \* ^\s*packages:
    Cat(<<Bol, Star(Ws), Str(<<"p", "a", "c", "k", "a", "g", "e", "s",
        ":">>)>>),
    \* ^\s*auditing
    Cat(<<Bol, Star(Ws), Str(<<"a", "u", "d", "i", "t", "i", "n", "g">>)>>)
    >>

\* CATEGORY_PATTERNS["python"]
CATEGORY_PATTERNS_python ==
    <<
    \* ^\s*==
    Cat(<<Bol, Star(Ws), Str(<<"=", "=">>)>>),
    \* ^\s*---
    Cat(<<Bol, Star(Ws), Str(<<"-", "-", "-">>)>>),
    \* ^collected \d+ items
    Cat(<<Bol, Str(<<"c", "o", "l", "l", "e", "c", "t", "e", "d", " ">>),
        Plus(Digit), Str(<<" ", "i", "t", "e", "m", "s">>)>>),
    \* ^=\d+ passed
    Cat(<<Bol, Str(<<"=">>), Plus(Digit), Str(<<" ", "p", "a", "s", "s", "e",
        "d">>)>>),
    \* ^=\d+ failed
    Cat(<<Bol, Str(<<"=">>), Plus(Digit), Str(<<" ", "f", "a", "i", "l", "e",
        "d">>)>>),
    \* ^=\d+ skipped
    Cat(<<Bol, Str(<<"=">>), Plus(Digit), Str(<<" ", "s", "k", "i", "p", "p",
        "e", "d">>)>>),
    \* ^\s*PASSED\s*\[
    Cat(<<Bol, Star(Ws), Str(<<"P", "A", "S", "S", "E", "D">>), Star(Ws),
        Str(<<"[">>)>>),
    \* ^\s*passed\s*$
    Cat(<<Bol, Star(Ws), Str(<<"p", "a", "s", "s", "e", "d">>), Star(Ws),
        Eol>>)
    >>

\* CATEGORY_PATTERNS["rust"]
CATEGORY_PATTERNS_rust ==
    <<
    \* ^\s*Compiling
    Cat(<<Bol, Star(Ws), Str(<<"C", "o", "m", "p", "i", "l", "i", "n",
        "g">>)>>),
    \* ^\s*Finished
    Cat(<<Bol, Star(Ws), Str(<<"F", "i", "n", "i", "s", "h", "e", "d">>)>>),
    \* ^\s*Running\b
    Cat(<<Bol, Star(Ws), Str(<<"R", "u", "n", "n", "i", "n", "g">>), Wb>>),
    \* ^\s*Downloading
    Cat(<<Bol, Star(Ws), Str(<<"D", "o", "w", "n", "l", "o", "a", "d", "i",
        "n", "g">>)>>)
    >>

\* CATEGORY_PATTERNS["git"]
CATEGORY_PATTERNS_git ==
    <<
    \* ^\s*$
    Cat(<<Bol, Star(Ws), Eol>>),
    \* ^\s*On branch
    Cat(<<Bol, Star(Ws), Str(<<"O", "n", " ", "b", "r", "a", "n", "c",
        "h">>)>>),
    \* ^\s*Your branch
    Cat(<<Bol, Star(Ws), Str(<<"Y", "o", "u", "r", " ", "b", "r", "a", "n",
        "c", "h">>)>>)
    >>

-----------------------------------------------------------------------------
(* preprocess_output and collapse_empty_lines                              *)

\* A CSI pattern that ends with an upper-case letter only: it leaves the
\* SGR sequences (ESC[31m, ESC[0m) in the text.
ANSI_CSI_upper ==
    Cat(<<Str(<<"ESC", "[">>), Star(In(DigitChars \cup {";"})),
        In(UpperChars)>>)

\* \x1b\[[0-9;]*[a-zA-Z]
ANSI_CSI ==
    Cat(<<Str(<<"ESC", "[">>), Star(In(DigitChars \cup {";"})),
        In(LowerChars \cup UpperChars)>>)

\* \x1b\[\?[0-9;]*[a-zA-Z]
ANSI_PRIVATE ==
    Cat(<<Str(<<"ESC", "[", "?">>), Star(In(DigitChars \cup {";"})),
        In(LowerChars \cup UpperChars)>>)

\* \x1b\][^\x07]*\x07
ANSI_OSC ==
    Cat(<<Str(<<"ESC", "]">>), Star(NotIn({"BEL"})), Str(<<"BEL">>)>>)

\* \x1b[()][AB012]
ANSI_CHARSET ==
    Cat(<<Str(<<"ESC">>), In({"(", ")"}), In({"A", "B", "0", "1", "2"})>>)

\* The Unicode box drawing characters preprocess_output removes.
box_chars ==
    {"U250C", "U2510", "U2514", "U2518", "U2502", "U2500", "U251C", "U2524",
     "U252C", "U2534", "U253C", "U256D", "U256E", "U256F", "U2570", "U2550",
     "U2551", "U2554", "U2557", "U255A", "U255D", "U2560", "U2563", "U2566",
     "U2569", "U256C"}

RECURSIVE collapse_runs(_, _)
\* The loop of collapse_empty_lines: a run of blank lines becomes one ''.
collapse_runs(ls, prev_empty) ==
    IF Len(ls) = 0 THEN <<>>
    ELSE LET line == Head(ls)
             is_empty == IsBlank(line)
         IN  IF is_empty
             THEN (IF prev_empty THEN <<>> ELSE << <<>> >>)
                  \o collapse_runs(Tail(ls), TRUE)
             ELSE <<line>> \o collapse_runs(Tail(ls), FALSE)

RECURSIVE pop_leading_empty(_)
\* while result and not result[0].strip(): result.pop(0)
pop_leading_empty(res) ==
    IF Len(res) > 0 /\ IsBlank(res[1]) THEN pop_leading_empty(Tail(res))
    ELSE res

\* A cleanup that leaves the trailing blank lines in place.
keep_trailing_empty(res) == res

RECURSIVE pop_trailing_empty(_)
\* while result and not result[-1].strip(): result.pop()
pop_trailing_empty(res) ==
    IF Len(res) > 0 /\ IsBlank(res[Len(res)])
    THEN pop_trailing_empty(SubSeq(res, 1, Len(res) - 1))
    ELSE res

collapse_empty_lines(ls) ==
    join(pop_trailing_empty(pop_leading_empty(collapse_runs(ls, FALSE))))

\* [line.rstrip() for line in lines]
rstrip_lines(ls) == [n \in DOMAIN ls |-> rstrip(ls[n])]

preprocess_output(out) ==
    IF Len(out) = 0 THEN out
    ELSE LET stripped ==
                 re_sub(ANSI_CHARSET,
                     re_sub(ANSI_OSC,
                         re_sub(ANSI_PRIVATE,
                             re_sub(ANSI_CSI, out))))
             unboxed == SelectSeq(stripped, LAMBDA c : c \notin box_chars)
         IN  collapse_empty_lines(rstrip_lines(split(unboxed)))

-----------------------------------------------------------------------------
(* deduplicate_similar_lines                                               *)

\* threshold = 0.8, kept exact as the fraction ThresholdNum / ThresholdDen.
ThresholdNum == 4

ThresholdDen == 5

\* The length of the longest common run of a[x:ahi] and b[y:bhi] from x, y.
common_run(a, b, x, y, ahi, bhi) ==
    LET room == IF ahi - x < bhi - y THEN ahi - x ELSE bhi - y
    IN  CHOOSE k \in 0..room :
            /\ \A n \in 1..k : a[x + n] = b[y + n]
            /\ k = room \/ a[x + k + 1] # b[y + k + 1]

\* Of the blocks whose sizes size gives by their starts <<x, y>>: the
\* longest; of the longest ones the one starting earliest in a, and of
\* those the one starting earliest in b.  As <<x, y, size>>.
longest_block(size) ==
    LET best == CHOOSE xy \in DOMAIN size :
                    \A uv \in DOMAIN size :
                        \/ size[uv] < size[xy]
                        \/ /\ size[uv] = size[xy]
                           /\ \/ xy[1] < uv[1]
                              \/ xy[1] = uv[1] /\ xy[2] <= uv[2]
    IN  <<best[1], best[2], size[best]>>

\* SequenceMatcher.find_longest_match(alo, ahi, blo, bhi), without junk
\* (isjunk is None, and autojunk needs 200 characters).
find_longest_match(a, b, alo, ahi, blo, bhi) ==
    longest_block([xy \in (alo..(ahi - 1)) \X (blo..(bhi - 1)) |->
                       common_run(a, b, xy[1], xy[2], ahi, bhi)])

RECURSIVE matching_chars(_, _, _, _, _, _)
RECURSIVE matching_around(_, _, _, _, _, _, _)

\* The sum of the sizes of SequenceMatcher.get_matching_blocks() within
\* a[alo:ahi] and b[blo:bhi]: the longest match, then the same to its left
\* and to its right.
matching_chars(a, b, alo, ahi, blo, bhi) ==
    IF alo >= ahi \/ blo >= bhi THEN 0
    ELSE matching_around(a, b, alo, ahi, blo, bhi,
                         find_longest_match(a, b, alo, ahi, blo, bhi))

\* With m = <<x, y, k>> the longest match.
matching_around(a, b, alo, ahi, blo, bhi, m) ==
    IF m[3] = 0 THEN 0
    ELSE m[3] + matching_chars(a, b, alo, m[1], blo, m[2])
              + matching_chars(a, b, m[1] + m[3], ahi, m[2] + m[3], bhi)

\* ratio() > threshold: a comparison that drops a line whose ratio is
\* exactly the threshold from the run.
ratio_above_threshold(a, b) ==
    LET matches == matching_chars(a, b, 0, Len(a), 0, Len(b))
        length == Len(a) + Len(b)
    IN  \/ length = 0
        \/ 2 * matches * ThresholdDen > ThresholdNum * length

\* SequenceMatcher(None, a, b).ratio() >= threshold, where ratio() is
\* 2.0 * matches / (len(a) + len(b)), and 1.0 for two empty strings.
ratio_at_least_threshold(a, b) ==
    LET matches == matching_chars(a, b, 0, Len(a), 0, Len(b))
        length == Len(a) + Len(b)
    IN  \/ length = 0
        \/ 2 * matches * ThresholdDen >= ThresholdNum * length

RECURSIVE similar_group_end(_, _, _)
\* The inner while loop: the first j that is the end of the list, a blank
\* line, or a line whose ratio to lines[i] is below the threshold.
similar_group_end(ls, i0, j) ==
    IF /\ j < Len(ls)
       /\ ~IsBlank(ls[j + 1])
       /\ ratio_at_least_threshold(ls[i0 + 1], ls[j + 1])
    THEN similar_group_end(ls, i0, j + 1)
    ELSE j

\* f"{line} [... {n} similar lines]"
similar_summary(line, n) ==
    line \o <<" ", "[", ".", ".", ".", " ">> \o decimal(n)
         \o <<" ", "s", "i", "m", "i", "l", "a", "r", " ", "l", "i", "n", "e", "s", "]">>

\* len(similar_group) >= 3: an emission that already compresses a run of
\* three.
emit_group_from_three(ls, i0, res, j) ==
    IF j - i0 >= 3
    THEN <<j, Append(res, similar_summary(ls[i0 + 1], j - i0))>>
    ELSE <<j, res \o SubSeq(ls, i0 + 1, j)>>

\* i = j - 1: an emission that holds the last line of a short run back and
\* scans it again, so that a run of one line never moves the scan.
emit_group_rescan(ls, i0, res, j) ==
    IF j - i0 > 3
    THEN <<j, Append(res, similar_summary(ls[i0 + 1], j - i0))>>
    ELSE <<j - 1, res \o SubSeq(ls, i0 + 1, j - 1)>>

\* The end of an iteration whose similar_group is lines[i0:j]: the next
\* position and the next result.
emit_group(ls, i0, res, j) ==
    IF j - i0 > 3
    THEN <<j, Append(res, similar_summary(ls[i0 + 1], j - i0))>>
    ELSE <<j, res \o SubSeq(ls, i0 + 1, j)>>

\* One iteration of the outer while loop at position i0 with result res:
\* the next position and the next result.
dedup_iteration(ls, i0, res) ==
    IF IsBlank(ls[i0 + 1]) THEN <<i0 + 1, Append(res, ls[i0 + 1])>>
    ELSE emit_group(ls, i0, res, similar_group_end(ls, i0, i0 + 1))

RECURSIVE dedup_loop(_, _, _)
RECURSIVE dedup_continue(_, _)

\* The outer while loop from position i0 with result res.
dedup_loop(ls, i0, res) ==
    IF i0 < Len(ls) THEN dedup_continue(ls, dedup_iteration(ls, i0, res))
    ELSE res

dedup_continue(ls, nxt) == dedup_loop(ls, nxt[1], nxt[2])

deduplicate_similar_lines(ls) ==
    IF Len(ls) <= 2 THEN ls ELSE dedup_loop(ls, 0, <<>>)

-----------------------------------------------------------------------------
(* compact_git_status                                                      *)

\* \s*\(use "[^"]+"\s+[^)]+\)
USAGE_HINT_ARGS ==
    Cat(<<Star(Ws), Str(<<"(", "u", "s", "e", " ", "\"">>),
        Plus(NotIn({"\""})), Str(<<"\"">>), Plus(Ws), Plus(NotIn({")"})),
        Str(<<")">>)>>)

\* \s*\(use "[^"]+"\)
USAGE_HINT ==
    Cat(<<Star(Ws), Str(<<"(", "u", "s", "e", " ", "\"">>),
        Plus(NotIn({"\""})), Str(<<"\"", ")">>)>>)

\* ^\s*On branch \S+\s*$
ON_BRANCH ==
    Cat(<<Bol, Star(Ws), Str(<<"O", "n", " ", "b", "r", "a", "n", "c", "h",
        " ">>), Plus(NotWs), Star(Ws), Eol>>)

\* ^\s*Your branch is [^.]+\.\s*$
YOUR_BRANCH ==
    Cat(<<Bol, Star(Ws), Str(<<"Y", "o", "u", "r", " ", "b", "r", "a", "n",
        "c", "h", " ", "i", "s", " ">>), Plus(NotIn({"."})), Str(<<".">>),
        Star(Ws), Eol>>)

\* ^\s*nothing to commit,?\s*
NOTHING_TO_COMMIT ==
    Cat(<<Bol, Star(Ws), Str(<<"n", "o", "t", "h", "i", "n", "g", " ", "t",
        "o", " ", "c", "o", "m", "m", "i", "t">>), Opt(Str(<<",">>)),
        Star(Ws)>>)

\* ^\s*working tree clean\s*$
WORKING_TREE_CLEAN ==
    Cat(<<Bol, Star(Ws), Str(<<"w", "o", "r", "k", "i", "n", "g", " ", "t",
        "r", "e", "e", " ", "c", "l", "e", "a", "n">>), Star(Ws), Eol>>)

\* status_map, in the order the dict is written and iterated.
status_map ==
    << [status |-> <<"m", "o", "d", "i", "f", "i", "e", "d", ":">>, code |-> "M"],
       [status |-> <<"d", "e", "l", "e", "t", "e", "d", ":">>, code |-> "D"],
       [status |-> <<"n", "e", "w", " ", "f", "i", "l", "e", ":">>, code |-> "A"],
       [status |-> <<"r", "e", "n", "a", "m", "e", "d", ":">>, code |-> "R"],
       [status |-> <<"c", "o", "p", "i", "e", "d", ":">>, code |-> "C"],
       [status |-> <<"t", "y", "p", "e", " ", "c", "h", "a", "n", "g", "e", "d", ":">>,
        code |-> "T"] >>

\* rf'{re.escape(status)}\s*(.+)': a pattern that asks for no whitespace
\* between the status and the path.
status_regex_no_space(status) == Cat(<<Str(status), Star(Ws), Plus(AnyCh)>>)

\* rf'{re.escape(status)}\s+(.+)'
status_regex(status) == Cat(<<Str(status), Plus(Ws), Plus(AnyCh)>>)

\* match.group(1).strip() of re.search(status_regex, line, re.IGNORECASE).
\* Group 1 runs to the end of the line and starts inside or right after the
\* whitespace that follows the status, so stripped it is the stripped rest
\* of the line after the status.
status_file_path(status, line) ==
    strip(SubSeq(line,
                 search_start(status_regex(status), line, TRUE) + Len(status) + 1,
                 Len(line)))

RECURSIVE compact_status(_, _)
\* The loop over status_map.items() from entry n on: the compacted line in
\* a one-element list, or the empty list when no entry compacts the line.
compact_status(line, n) ==
    IF n > Len(status_map) THEN <<>>
    ELSE LET status == status_map[n].status
             code == status_map[n].code
         IN  IF /\ contains(lower(line), status)
                /\ re_search(status_regex(status), line, TRUE)
             THEN << <<code, " ">> \o status_file_path(status, line) >>
             ELSE compact_status(line, n + 1)

\* if line.strip(): result.append(line)
append_unless_blank(line) == IF IsBlank(line) THEN <<>> ELSE <<line>>

\* The lines one line adds to result, given what the loop over status_map
\* made of it: the compacted line, or else the line without branch noise,
\* unless that is blank.
git_status_result(status_line, line) ==
    IF Len(status_line) > 0 THEN status_line
    ELSE append_unless_blank(
             re_sub(WORKING_TREE_CLEAN,
                 re_sub(NOTHING_TO_COMMIT,
                     re_sub(YOUR_BRANCH,
                         re_sub(ON_BRANCH, line)))))

\* The body of the loop after the usage hints are stripped.
git_stripped_line(line) == git_status_result(compact_status(line, 1), line)

\* The body of the loop of compact_git_status for one line: the lines it
\* appends to result.
git_status_line(raw) ==
    git_stripped_line(re_sub(USAGE_HINT, re_sub(USAGE_HINT_ARGS, raw)))

RECURSIVE git_status_lines(_)
git_status_lines(ls) ==
    IF Len(ls) = 0 THEN <<>>
    ELSE git_status_line(Head(ls)) \o git_status_lines(Tail(ls))

compact_git_status(out) == join(git_status_lines(split(out)))

-----------------------------------------------------------------------------
(* compact_pytest_output                                                   *)

\* ^\s*[\w/_.]+\s+PASSED\s*\[
PASSED_PROGRESS ==
    Cat(<<Bol, Star(Ws), Plus(In(WordChars \cup {"/", "_", "."})), Plus(Ws),
        Str(<<"P", "A", "S", "S", "E", "D">>), Star(Ws), Str(<<"[">>)>>)

\* ^=+$
SEPARATOR ==
    Cat(<<Bol, Plus(Str(<<"=">>)), Eol>>)

\* 'FAILED' in line or 'ERROR' in line: a trigger that misses 'error:'.
is_failure_line_upper_only(line) ==
    \/ contains(line, <<"F", "A", "I", "L", "E", "D">>)
    \/ contains(line, <<"E", "R", "R", "O", "R">>)

\* 'FAILED' in line or 'ERROR' in line or 'error:' in line.lower()
is_failure_line(line) ==
    \/ contains(line, <<"F", "A", "I", "L", "E", "D">>)
    \/ contains(line, <<"E", "R", "R", "O", "R">>)
    \/ contains(lower(line), <<"e", "r", "r", "o", "r", ":">>)

\* line.startswith(('assert', 'E ', '>', 'FAILED', 'ERROR'))
starts_failure_detail(line) ==
    \/ startswith(line, <<"a", "s", "s", "e", "r", "t">>)
    \/ startswith(line, <<"E", " ">>)
    \/ startswith(line, <<">">>)
    \/ startswith(line, <<"F", "A", "I", "L", "E", "D">>)
    \/ startswith(line, <<"E", "R", "R", "O", "R">>)

\* The branches of the loop that skip a line outside a failure block.
is_skipped_line(line) ==
    \/ contains(line, <<"P", "A", "S", "S", "E", "D">>)
    \/ re_match(PASSED_PROGRESS, line, FALSE) # -1
    \/ re_match(SEPARATOR, strip(line), FALSE) # -1
    \/ startswith(strip(line), <<"c", "o", "l", "l", "e", "c", "t", "e", "d">>)

\* 'failed' in line.lower() or 'error' in line.lower()
\*     or 'passed' not in line.lower()
is_summary_line(line) ==
    \/ contains(lower(line), <<"f", "a", "i", "l", "e", "d">>)
    \/ contains(lower(line), <<"e", "r", "r", "o", "r">>)
    \/ ~contains(lower(line), <<"p", "a", "s", "s", "e", "d">>)

\* The body of the loop of compact_pytest_output for one line, from the
\* state st = [in_failure, result]: the state after it.  (failure_context
\* is written by the loop and never read; it is left out.)
pytest_line(st, line) ==
    IF is_failure_line(line)
    THEN [in_failure |-> TRUE, result |-> Append(st.result, line)]
    ELSE IF st.in_failure
    THEN LET still == ~(~IsBlank(line) /\ ~startswith(line, <<" ">>))
         IN  [in_failure |-> still,
              result |-> IF still \/ starts_failure_detail(line)
                         THEN Append(st.result, line)
                         ELSE st.result]
    ELSE IF is_skipped_line(line) THEN st
    ELSE IF is_summary_line(line) /\ ~IsBlank(line)
    THEN [in_failure |-> FALSE, result |-> Append(st.result, line)]
    ELSE st

RECURSIVE pytest_lines(_, _)
pytest_lines(st, ls) ==
    IF Len(ls) = 0 THEN st
    ELSE pytest_lines(pytest_line(st, Head(ls)), Tail(ls))

compact_pytest_output(out) ==
    join(pytest_lines([in_failure |-> FALSE, result |-> <<>>], split(out)).result)

-----------------------------------------------------------------------------
(* compact_docker_output                                                   *)

\* \b([a-f0-9]{12})\b
DOCKER_ID ==
    Cat(<<Wb, Rep(In(HexLowerChars \cup DigitChars), 12, 12), Wb>>)

\* ^\s*CONTAINER ID\s+IMAGE
CONTAINER_HEADER ==
    Cat(<<Bol, Star(Ws), Str(<<"C", "O", "N", "T", "A", "I", "N", "E", "R",
        " ", "I", "D">>), Plus(Ws), Str(<<"I", "M", "A", "G", "E">>)>>)

\* ^\s*REPOSITORY\s+TAG
REPOSITORY_HEADER ==
    Cat(<<Bol, Star(Ws), Str(<<"R", "E", "P", "O", "S", "I", "T", "O", "R",
        "Y">>), Plus(Ws), Str(<<"T", "A", "G">>)>>)

\* ^\s*NAMESPACE\s+NAME
NAMESPACE_HEADER ==
    Cat(<<Bol, Star(Ws), Str(<<"N", "A", "M", "E", "S", "P", "A", "C", "E">>),
        Plus(Ws), Str(<<"N", "A", "M", "E">>)>>)

\* \d{4}-\d{2}-\d{2} \d{2}:\d{2}:\d{2}
TIMESTAMP ==
    Cat(<<Rep(Digit, 4, 4), Str(<<"-">>), Rep(Digit, 2, 2), Str(<<"-">>),
        Rep(Digit, 2, 2), Str(<<" ">>), Rep(Digit, 2, 2), Str(<<":">>),
        Rep(Digit, 2, 2), Str(<<":">>), Rep(Digit, 2, 2)>>)

\* The body of the loop after the IDs are truncated.
docker_truncated_line(line) ==
    IF \/ re_match(CONTAINER_HEADER, line, FALSE) # -1
       \/ re_match(REPOSITORY_HEADER, line, FALSE) # -1
       \/ re_match(NAMESPACE_HEADER, line, FALSE) # -1
    THEN <<>>
    ELSE append_unless_blank(re_sub(TIMESTAMP, line))

\* The body of the loop of compact_docker_output for one line: the lines it
\* appends to result.  The first re.sub keeps m.group(1)[:7] of each match.
docker_line(raw) == docker_truncated_line(sub_from(DOCKER_ID, raw, 0, 7, FALSE))

RECURSIVE docker_lines(_)
docker_lines(ls) ==
    IF Len(ls) = 0 THEN <<>>
    ELSE docker_line(Head(ls)) \o docker_lines(Tail(ls))

compact_docker_output(out) == join(docker_lines(split(out)))

-----------------------------------------------------------------------------
(* postprocess_output and filter_output                                    *)

postprocess_output(out, cat) ==
    IF Len(out) = 0 THEN out
    ELSE IF cat = "git" THEN compact_git_status(out)
    ELSE IF cat = "python" THEN compact_pytest_output(out)
    ELSE IF cat \in {"docker", "docker-compose"} THEN compact_docker_output(out)
    ELSE out

\* CATEGORY_PATTERNS.get(category, [])
CATEGORY_PATTERNS(cat) ==
    CASE cat = "docker" -> CATEGORY_PATTERNS_docker
      [] cat = "docker-compose" -> CATEGORY_PATTERNS_docker_compose
      [] cat = "nodejs" -> CATEGORY_PATTERNS_nodejs
      [] cat = "python" -> CATEGORY_PATTERNS_python
      [] cat = "rust" -> CATEGORY_PATTERNS_rust
      [] cat = "git" -> CATEGORY_PATTERNS_git
      [] OTHER -> <<>>

\* A pattern list with GIT_SENSITIVE_PATTERNS for every category, 'git'
\* too.
patterns_for_every_category(cat) ==
    SKIP_PATTERNS \o CATEGORY_PATTERNS(cat) \o GIT_SENSITIVE_PATTERNS

\* The pattern list filter_output builds for a category.
patterns_for(cat) ==
    IF cat # "git"
    THEN SKIP_PATTERNS \o CATEGORY_PATTERNS(cat) \o GIT_SENSITIVE_PATTERNS
    ELSE SKIP_PATTERNS \o CATEGORY_PATTERNS(cat)

\* The inner loop: skip is set when some pattern is found in the line.
skip_line(line, patterns) ==
    \E n \in DOMAIN patterns : re_search(patterns[n], line, TRUE)

\* Phase 2 of filter_output: the lines no pattern is found in, in order.
filter_lines(ls, cat) ==
    LET patterns == patterns_for(cat)
    IN  SelectSeq(ls, LAMBDA line : ~skip_line(line, patterns))

filter_output(out, cat) ==
    IF Len(out) = 0 THEN out
    ELSE LET pre == preprocess_output(out)
             kept == deduplicate_similar_lines(filter_lines(split(pre), cat))
             post == postprocess_output(join(kept), cat)
         IN  collapse_empty_lines(split(post))

-----------------------------------------------------------------------------
(* Inputs.  Every text is built from a small vocabulary of lines chosen to *)
(* reach each branch of the stage it is fed to.                            *)

\* The most lines an input of filter_output has.
MaxLines == 3

\* The most lines an input of deduplicate_similar_lines has.
MaxDedupLines == 5

\* The most lines an input of a compactor has.
MaxCompactLines == 3

\* The most lines the list handed to the last two steps has.
MaxCleanupLines == 5

\* The most characters an ANSI-wrapped text has inside the wrapping.
MaxAnsiChars == 3

\* All sequences of at most n elements of S.
SeqUpTo(S, n) == UNION {[1..m -> S] : m \in 0..n}

Categories ==
    {"git", "python", "docker", "docker-compose", "nodejs", "rust", "generic"}

Vocabulary ==
    { <<"m", "o", "d", "i", "f", "i", "e", "d", ":", " ", "c", "o", "p", "i", "e", "d", ":", " ", "x">>,
      <<" ", " ", "d", "e", "l", "e", "t", "e", "d", ":", " ", " ", " ", "y">>,
      <<"F", "A", "I", "L", "E", "D", " ", "t">>,
      <<"ESC", "[", "3", "1", "m", "o", "k", " ">>,
      <<"[", "1", "/", "2", "0", "2", "4", "-", "0", "1", "-", "0", "1", " ", "1", "0", ":", "0", "0", ":", "0", "0", "2", "]">>,
      <<>> }

Inputs == {join(ls) : ls \in SeqUpTo(Vocabulary, MaxLines)}

DedupVocabulary ==
    { <<"a", "b">>, <<"a", "b", "c">>, <<"a", "b", "c", "d">>, <<"b", "c", "d">>, <<>>, <<" ">> }

DedupInputs == SeqUpTo(DedupVocabulary, MaxDedupLines)

PytestVocabulary ==
    { <<"F", "A", "I", "L", "E", "D", " ", "t">>,
      <<" ", " ", "a", "s", "s", "e", "r", "t", " ", "0">>,
      <<"E", " ", "x">>,
      <<"1", " ", "f", "a", "i", "l", "e", "d">>,
      <<"x", " ", "F", "a", "i", "l", "e", "d">>,
      <<"E", "r", "r", "o", "r", ":", " ", "y">>,
      <<"t", " ", "P", "A", "S", "S", "E", "D">>,
      <<"2", " ", "p", "a", "s", "s", "e", "d">>,
      <<"=", "=", "=", "=">>,
      <<"c", "o", "l", "l", "e", "c", "t", "e", "d", " ", "1">>,
      <<"n", "o", "t", "e">>,
      <<>> }

PytestInputs == SeqUpTo(PytestVocabulary, MaxCompactLines)

GitVocabulary ==
    { <<" ", " ", "m", "o", "d", "i", "f", "i", "e", "d", ":", " ", " ", " ", "a", " ", "b">>,
      <<"m", "o", "d", "i", "f", "i", "e", "d", ":", "x">>,
      <<"d", "e", "l", "e", "t", "e", "d", ":", " ", "y", " ", "m", "o", "d", "i", "f", "i", "e", "d", ":">>,
      <<"N", "E", "W", " ", "F", "I", "L", "E", ":", " ", "n", " ", " ", "(", "u", "s", "e", " ", "\"", "g", "i", "t", " ", "a", "d", "d", "\"", ")">>,
      <<"r", "e", "n", "a", "m", "e", "d", ":", " ", " ">>,
      <<"c", "o", "p", "i", "e", "d", ":", " ", "c", " ", "(", "u", "s", "e", " ", "\"", "g", "i", "t", " ", "r", "m", "\"", " ", "f", ")">>,
      <<"t", "y", "p", "e", " ", "c", "h", "a", "n", "g", "e", "d", ":", " ", "t">>,
      <<"O", "n", " ", "b", "r", "a", "n", "c", "h", " ", "m", "a", "i", "n">>,
      <<"n", "o", "t", "h", "i", "n", "g", " ", "t", "o", " ", "c", "o", "m", "m", "i", "t", ",", " ", "w", "o", "r", "k", "i", "n", "g", " ", "t", "r", "e", "e", " ", "c", "l", "e", "a", "n">>,
      <<"r", "e", "a", "d", "m", "e">> }

GitInputs == SeqUpTo(GitVocabulary, MaxCompactLines)

CleanupVocabulary == { <<"a">>, <<" ", "b">>, <<>>, <<" ">>, <<"\t">> }

CleanupInputs == SeqUpTo(CleanupVocabulary, MaxCleanupLines)

AnsiAlphabet == {"ESC", "[", "]", "(", "0", "m", "BEL", "?", "a", " ", "\n"}

AnsiInputs == SeqUpTo(AnsiAlphabet, MaxAnsiChars)

\* ESC[31m + t + ESC[0m
ansi_wrap(t) ==
    <<"ESC", "[", "3", "1", "m">> \o t \o <<"ESC", "[", "0", "m">>

-----------------------------------------------------------------------------
(* filter_output, step by step                                             *)

\* The variables a call has not written yet.
Idle ==
    /\ i = 0
    /\ similar_out = <<>>
    /\ in_failure = FALSE
    /\ compacted = <<>>
    /\ result = <<>>
    /\ pass = 1
    /\ first_result = <<>>
    /\ ansi = [pre_wrapped |-> <<>>, pre_bare |-> <<>>,
               out_wrapped |-> <<>>, out_bare |-> <<>>]

Init ==
    /\ category \in Categories
    /\ output \in Inputs
    /\ pc = "call"
    /\ lines = <<>>
    /\ filtered_lines = <<>>
    /\ Idle

\* if not output: return output
ReturnEmpty ==
    /\ pc = "call"
    /\ Len(output) = 0
    /\ result' = output
    /\ pc' = "done"
    /\ UNCHANGED <<category, output, lines, filtered_lines, i, similar_out,
                   in_failure, compacted, pass, first_result, ansi>>

\* Phase 1: output = preprocess_output(output); lines = output.split("\n")
Preprocess ==
    /\ pc = "call"
    /\ Len(output) > 0
    /\ output' = preprocess_output(output)
    /\ lines' = split(output')
    /\ pc' = "filter"
    /\ UNCHANGED <<category, filtered_lines, i, similar_out, in_failure,
                   compacted, result, pass, first_result, ansi>>

\* Phase 2: the loop that fills filtered_lines; then the call of
\* deduplicate_similar_lines(filtered_lines) begins.
FilterLines ==
    /\ pc = "filter"
    /\ filtered_lines' = filter_lines(lines, category)
    /\ i' = 0
    /\ similar_out' = <<>>
    /\ pc' = "dedup"
    /\ UNCHANGED <<category, output, lines, in_failure, compacted, result,
                   pass, first_result, ansi>>

\* deduplicate_similar_lines: if len(lines) <= 2: return lines
DedupShort ==
    /\ pc = "dedup"
    /\ Len(filtered_lines) <= 2
    /\ similar_out' = filtered_lines
    /\ pc' = "post"
    /\ UNCHANGED <<category, output, lines, filtered_lines, i, in_failure,
                   compacted, result, pass, first_result, ansi>>

\* The assignments an iteration ends with.
DedupAssign(nxt) ==
    /\ i' = nxt[1]
    /\ similar_out' = nxt[2]

\* deduplicate_similar_lines: one iteration of while i < len(lines)
DedupIteration ==
    /\ pc = "dedup"
    /\ Len(filtered_lines) > 2
    /\ i < Len(filtered_lines)
    /\ DedupAssign(dedup_iteration(filtered_lines, i, similar_out))
    /\ UNCHANGED <<category, output, lines, filtered_lines, in_failure,
                   compacted, result, pass, first_result, ansi, pc>>

\* deduplicate_similar_lines: the loop ends, return result; the caller
\* assigns it to filtered_lines.
DedupReturn ==
    /\ pc = "dedup"
    /\ Len(filtered_lines) > 2
    /\ i >= Len(filtered_lines)
    /\ filtered_lines' = similar_out
    /\ pc' = "post"
    /\ UNCHANGED <<category, output, lines, i, similar_out, in_failure,
                   compacted, result, pass, first_result, ansi>>

\* result = '\n'.join(filtered_lines); Phase 4: postprocess_output
Postprocess ==
    /\ pc = "post"
    /\ result' = postprocess_output(join(filtered_lines), category)
    /\ pc' = "final"
    /\ UNCHANGED <<category, output, lines, filtered_lines, i, similar_out,
                   in_failure, compacted, pass, first_result, ansi>>

\* Final cleanup: result = collapse_empty_lines(result.split('\n')); return
FinalCleanup ==
    /\ pc = "final"
    /\ result' = collapse_empty_lines(split(result))
    /\ pc' = "done"
    /\ UNCHANGED <<category, output, lines, filtered_lines, i, similar_out,
                   in_failure, compacted, pass, first_result, ansi>>

\* The caller runs filter_output on the returned string, same category.
CallAgain ==
    /\ pc = "done"
    /\ pass = 1
    /\ first_result' = result
    /\ output' = result
    /\ pass' = 2
    /\ pc' = "call"
    /\ lines' = <<>>
    /\ filtered_lines' = <<>>
    /\ i' = 0
    /\ similar_out' = <<>>
    /\ result' = <<>>
    /\ UNCHANGED <<category, in_failure, compacted, ansi>>

Next ==
    \/ ReturnEmpty
    \/ Preprocess
    \/ FilterLines
    \/ DedupShort
    \/ DedupIteration
    \/ DedupReturn
    \/ Postprocess
    \/ FinalCleanup
    \/ CallAgain

Spec == Init /\ [][Next]_vars

\* The second call has returned: the one state without a next step.
Returned == pc = "done" /\ pass = 2

\* The interpreter runs a call to its end, no step of it waits on anything:
\* weak fairness of Next.  ENABLED <<Next>>_vars is written out as
\* ~Returned: in every other state the action of the current pc can be
\* taken, each action but DedupIteration gives pc another value, and
\* DedupIteration moves i.
Fairness == []<>Returned \/ []<><<Next>>_vars

FairSpec == Spec /\ Fairness

-----------------------------------------------------------------------------
(* deduplicate_similar_lines on its own                                    *)

InitDedup ==
    /\ category = "generic"
    /\ output = <<>>
    /\ pc = "dedup"
    /\ Idle
    /\ filtered_lines \in DedupInputs
    /\ lines = filtered_lines

NextDedup ==
    \/ DedupShort
    \/ DedupIteration
    \/ DedupReturn

SpecDedup == InitDedup /\ [][NextDedup]_vars
-----------------------------------------------------------------------------
(* compact_pytest_output, line by line                                     *)

InitPytest ==
    /\ category = "python"
    /\ output \in {join(ls) : ls \in PytestInputs}
    /\ lines = split(output)
    /\ filtered_lines = <<>>
    /\ pc = "pytest"
    /\ Idle

\* The assignments the body of the loop ends with.
PytestAssign(st) ==
    /\ in_failure' = st.in_failure
    /\ compacted' = st.result

\* for line in lines: one pass through the body of the loop
PytestLine ==
    /\ pc = "pytest"
    /\ i < Len(lines)
    /\ PytestAssign(pytest_line([in_failure |-> in_failure, result |-> compacted],
                                lines[i + 1]))
    /\ i' = i + 1
    /\ UNCHANGED <<category, output, lines, filtered_lines, similar_out,
                   result, pass, first_result, ansi, pc>>

\* return '\n'.join(result)
PytestReturn ==
    /\ pc = "pytest"
    /\ i >= Len(lines)
    /\ result' = join(compacted)
    /\ pc' = "done"
    /\ UNCHANGED <<category, output, lines, filtered_lines, i, similar_out,
                   in_failure, compacted, pass, first_result, ansi>>

NextPytest ==
    \/ PytestLine
    \/ PytestReturn

SpecPytest == InitPytest /\ [][NextPytest]_vars

-----------------------------------------------------------------------------
(* compact_git_status, line by line                                        *)

InitGit ==
    /\ category = "git"
    /\ output \in {join(ls) : ls \in GitInputs}
    /\ lines = split(output)
    /\ filtered_lines = <<>>
    /\ pc = "git"
    /\ Idle

\* for line in lines: one pass through the body of the loop
GitLine ==
    /\ pc = "git"
    /\ i < Len(lines)
    /\ compacted' = compacted \o git_status_line(lines[i + 1])
    /\ i' = i + 1
    /\ UNCHANGED <<category, output, lines, filtered_lines, similar_out,
                   in_failure, result, pass, first_result, ansi, pc>>

\* return '\n'.join(result)
GitReturn ==
    /\ pc = "git"
    /\ i >= Len(lines)
    /\ result' = join(compacted)
    /\ pc' = "done"
    /\ UNCHANGED <<category, output, lines, filtered_lines, i, similar_out,
                   in_failure, compacted, pass, first_result, ansi>>

NextGit ==
    \/ GitLine
    \/ GitReturn

SpecGit == InitGit /\ [][NextGit]_vars

-----------------------------------------------------------------------------
(* The last two steps of filter_output on their own, from every list of   *)
(* lines the stages before them may hand over.                             *)

InitCollapse ==
    /\ category \in Categories
    /\ output = <<>>
    /\ lines = <<>>
    /\ filtered_lines \in CleanupInputs
    /\ pc = "post"
    /\ Idle

NextCollapse ==
    \/ Postprocess
    \/ FinalCleanup

SpecCollapse == InitCollapse /\ [][NextCollapse]_vars

-----------------------------------------------------------------------------
(* A text and the same text wrapped in ESC[31m ... ESC[0m, side by side    *)

InitAnsi ==
    /\ category \in Categories
    /\ output \in AnsiInputs
    /\ lines = <<>>
    /\ filtered_lines = <<>>
    /\ pc = "ansi"
    /\ Idle

\* preprocess_output of the wrapped and of the bare text
AnsiPreprocess ==
    /\ pc = "ansi"
    /\ ansi' = [ansi EXCEPT !.pre_wrapped = preprocess_output(ansi_wrap(output)),
                            !.pre_bare = preprocess_output(output)]
    /\ pc' = "ansi_filter"
    /\ UNCHANGED <<category, output, lines, filtered_lines, i, similar_out,
                   in_failure, compacted, result, pass, first_result>>

\* filter_output of the wrapped and of the bare text
AnsiFilter ==
    /\ pc = "ansi_filter"
    /\ ansi' = [ansi EXCEPT !.out_wrapped = filter_output(ansi_wrap(output), category),
                            !.out_bare = filter_output(output, category)]
    /\ pc' = "done"
    /\ UNCHANGED <<category, output, lines, filtered_lines, i, similar_out,
                   in_failure, compacted, result, pass, first_result>>

NextAnsi ==
    \/ AnsiPreprocess
    \/ AnsiFilter

SpecAnsi == InitAnsi /\ [][NextAnsi]_vars

-----------------------------------------------------------------------------
(* Properties                                                              *)

\* The elements of a sequence.
Range(f) == {f[n] : n \in DOMAIN f}

\* C1: filter_output is idempotent per category: run again on its own
\* result with the same category, it returns that result unchanged.
C1_Idempotent == (pc = "done" /\ pass = 2) => result = first_result

-----------------------------------------------------------------------------

\* The blank-collapse law for a text: split on newlines it has no two
\* consecutive blank lines, and neither its first nor its last line is
\* blank unless the text is empty.
BlankCollapseLaw(text) ==
    LET ls == split(text)
    IN  /\ \A n \in 1..(Len(ls) - 1) : ~(IsBlank(ls[n]) /\ IsBlank(ls[n + 1]))
        /\ Len(text) > 0 => ~IsBlank(ls[1]) /\ ~IsBlank(ls[Len(ls)])

\* C2: for every input and every category, the text filter_output returns
\* satisfies the blank-collapse law.
C2_BlankCollapse == pc = "done" => BlankCollapseLaw(result)

\* A call has returned a text with a blank line left inside it, from lines
\* that had two blank lines in a row and a blank line at the end.
C2_Witness ==
    /\ pc = "done"
    /\ \E n \in 1..(Len(filtered_lines) - 1) :
           IsBlank(filtered_lines[n]) /\ IsBlank(filtered_lines[n + 1])
    /\ Len(filtered_lines) > 0
    /\ IsBlank(filtered_lines[Len(filtered_lines)])
    /\ \E n \in DOMAIN split(result) : IsBlank(split(result)[n])

-----------------------------------------------------------------------------

\* anchor + ' [... K similar lines]'
SummaryLine(anchor, K) ==
    anchor \o <<" ", "[", ".", ".", ".", " ">> \o decimal(K) \o <<" ", "s", "i", "m", "i", "l", "a", "r", " ", "l", "i", "n", "e", "s", "]">>

\* C3: in deduplicate_similar_lines on more than 2 lines, an iteration that
\* starts at a non-blank anchor emits its run by one of two rules: a run of
\* more than 3 members adds exactly one line, the anchor followed by
\* ' [... K similar lines]' with K the number of members; a run of 1, 2 or
\* 3 members adds its members unchanged and in order.  An input of 0, 1 or
\* 2 lines is returned unchanged.
C3_EmissionRules ==
    [][ /\ (pc = "dedup" /\ Len(filtered_lines) <= 2)
             => /\ pc' = "post"
                /\ similar_out' = filtered_lines
                /\ filtered_lines' = filtered_lines
        /\ (pc = "dedup" /\ pc' = "dedup" /\ ~IsBlank(filtered_lines[i + 1]))
             => LET K == i' - i
                IN  /\ K >= 1
                    /\ Len(filtered_lines) > 2
                    /\ IF K > 3
                       THEN similar_out' =
                                Append(similar_out,
                                       SummaryLine(filtered_lines[i + 1], K))
                       ELSE similar_out' =
                                similar_out \o SubSeq(filtered_lines, i + 1, i')
      ]_vars

\* The scan has replaced a run of four lines by one summary line, after it
\* emitted a run of one line unchanged.
C3_Witness ==
    /\ pc = "dedup"
    /\ i = 5
    /\ Len(similar_out) = 2
    /\ similar_out[1] = filtered_lines[1]
    /\ similar_out[2] = filtered_lines[2] \o <<" ", "[", ".", ".", ".", " ", "4", " ", "s", "i", "m", "i", "l", "a", "r", " ", "l", "i", "n", "e", "s", "]">>

-----------------------------------------------------------------------------

\* 'FAILED', 'ERROR' or 'error:' in any letter case
MentionsTriggerAnyCase(line) ==
    \/ contains(lower(line), <<"f", "a", "i", "l", "e", "d">>)
    \/ contains(lower(line), <<"e", "r", "r", "o", "r">>)
    \/ contains(lower(line), <<"e", "r", "r", "o", "r", ":">>)

\* 'FAILED' or 'ERROR' in upper case, or 'error:' in any letter case
MentionsTrigger(line) ==
    \/ contains(line, <<"F", "A", "I", "L", "E", "D">>)
    \/ contains(line, <<"E", "R", "R", "O", "R">>)
    \/ contains(lower(line), <<"e", "r", "r", "o", "r", ":">>)

\* C4 as written: every line of compact_pytest_output's input that contains
\* 'FAILED', 'ERROR' or 'error:' in any letter case puts the scan into the
\* failure-block state and is appended to the output, whatever the state.
C4_AnyCaseTrigger ==
    [][ (pc = "pytest" /\ pc' = "pytest" /\ MentionsTriggerAnyCase(lines[i + 1]))
          => /\ in_failure'
             /\ compacted' = Append(compacted, lines[i + 1])
      ]_vars

\* C4: every line of compact_pytest_output's input that contains 'FAILED'
\* or 'ERROR' in upper case, or 'error:' in any letter case, puts the scan
\* into the failure-block state and is appended to the output, whatever the
\* state; and the output, once written, is never shortened.
C4_ExactCaseTrigger ==
    [][ /\ (pc = "pytest" /\ pc' = "pytest" /\ MentionsTrigger(lines[i + 1]))
             => /\ in_failure'
                /\ compacted' = Append(compacted, lines[i + 1])
        /\ (pc = "pytest" /\ pc' = "pytest")
             => SubSeq(compacted', 1, Len(compacted)) = compacted
        /\ (pc = "pytest" /\ pc' = "done") => result' = join(compacted)
      ]_vars

\* The scan has just kept a line that has 'error:' in mixed case (and
\* neither 'ERROR' nor 'FAILED'), reached outside a failure block, and is
\* inside a failure block now.
C4_Witness ==
    /\ pc = "pytest"
    /\ i >= 2
    /\ contains(lower(lines[i]), <<"e", "r", "r", "o", "r", ":">>)
    /\ ~contains(lines[i], <<"E", "R", "R", "O", "R">>)
    /\ ~contains(lines[i], <<"F", "A", "I", "L", "E", "D">>)
    /\ ~MentionsTrigger(lines[i - 1])
    /\ ~IsBlank(lines[i - 1])
    /\ ~startswith(lines[i - 1], <<" ">>)
    /\ in_failure
    /\ Len(compacted) > 0
    /\ compacted[Len(compacted)] = lines[i]

-----------------------------------------------------------------------------

\* The phrases of the compactor with their codes, in the listed order.
Phrases ==
    << <<<<"m", "o", "d", "i", "f", "i", "e", "d", ":">>, "M">>, <<<<"d", "e", "l", "e", "t", "e", "d", ":">>, "D">>, <<<<"n", "e", "w", " ", "f", "i", "l", "e", ":">>, "A">>,
       <<<<"r", "e", "n", "a", "m", "e", "d", ":">>, "R">>, <<<<"c", "o", "p", "i", "e", "d", ":">>, "C">>, <<<<"t", "y", "p", "e", " ", "c", "h", "a", "n", "g", "e", "d", ":">>, "T">> >>

\* The line after the usage hints are stripped.
HintsStripped(raw) == re_sub(USAGE_HINT, re_sub(USAGE_HINT_ARGS, raw))

\* The phrase occurs in the line right after its first p characters, in
\* any letter case.
OccursAt(phrase, line, p) ==
    /\ p + Len(phrase) <= Len(line)
    /\ lower(SubSeq(line, p + 1, p + Len(phrase))) = phrase

\* The same, followed by a whitespace character and a further character.
OccursSpacedAt(phrase, line, p) ==
    /\ OccursAt(phrase, line, p)
    /\ p + Len(phrase) + 2 <= Len(line)
    /\ line[p + Len(phrase) + 1] \in WhitespaceChars

\* The first of the positions ps.
First(ps) == CHOOSE p \in ps : \A q \in ps : p <= q

\* '<code> <path>' for the first phrase, in the listed order, that occurs
\* in the line, with <path> everything after its first occurrence, trimmed.
CompactedByPhrase(line) ==
    LET n == First({m \in DOMAIN Phrases :
                       \E p \in 0..Len(line) : OccursAt(Phrases[m][1], line, p)})
        phrase == Phrases[n][1]
        p == First({q \in 0..Len(line) : OccursAt(phrase, line, q)})
    IN  <<Phrases[n][2], " ">>
        \o strip(SubSeq(line, p + Len(phrase) + 1, Len(line)))

\* The same for the first phrase that occurs followed by whitespace and a
\* further character, with <path> everything after the first such
\* occurrence, trimmed.
CompactedBySpacedPhrase(line) ==
    LET n == First({m \in DOMAIN Phrases :
                       \E p \in 0..Len(line) :
                           OccursSpacedAt(Phrases[m][1], line, p)})
        phrase == Phrases[n][1]
        p == First({q \in 0..Len(line) : OccursSpacedAt(phrase, line, q)})
    IN  <<Phrases[n][2], " ">>
        \o strip(SubSeq(line, p + Len(phrase) + 1, Len(line)))

\* C5 as written: for every line of compact_git_status's input that, after
\* the usage hints are stripped, contains one of the phrases in any letter
\* case, the output gets the line '<code> <path>' of the first phrase in
\* the listed order that occurs in the line, with <path> everything after
\* the phrase, trimmed, and the line itself is not passed through.
C5_AnyOccurrence ==
    [][ (/\ pc = "git"
         /\ pc' = "git"
         /\ \E m \in DOMAIN Phrases : \E p \in 0..Len(lines[i + 1]) :
                OccursAt(Phrases[m][1], HintsStripped(lines[i + 1]), p))
          => compacted' =
                 Append(compacted, CompactedByPhrase(HintsStripped(lines[i + 1])))
      ]_vars

\* C5: for every line of compact_git_status's input that, after the usage
\* hints are stripped, contains one of the phrases in any letter case
\* followed by a whitespace character and at least one further character,
\* the output gets the line '<code> <path>' of the first phrase in the
\* listed order that so occurs, with <path> everything after the first
\* such occurrence of it, trimmed, and the line itself is not passed
\* through.  A line in which no phrase so occurs is not compacted: the
\* output gets nothing for it, or the line from some position on.
C5_SpacedOccurrence ==
    [][ (pc = "git" /\ pc' = "git")
          => LET line == HintsStripped(lines[i + 1])
             IN  IF \E m \in DOMAIN Phrases : \E p \in 0..Len(line) :
                        OccursSpacedAt(Phrases[m][1], line, p)
                 THEN compacted' =
                          Append(compacted, CompactedBySpacedPhrase(line))
                 ELSE \/ compacted' = compacted
                      \/ \E k \in 1..Len(line) :
                             compacted' =
                                 Append(compacted, SubSeq(line, k, Len(line)))
      ]_vars

\* The scan has just compacted a line by its second phrase in the listed
\* order, because the first one that occurs in it is followed by nothing,
\* and has passed a line through whose phrase is followed by no whitespace.
C5_Witness ==
    /\ pc = "git"
    /\ i >= 2
    /\ lines[i - 1] = <<"m", "o", "d", "i", "f", "i", "e", "d", ":", "x">>
    /\ lines[i] = <<"d", "e", "l", "e", "t", "e", "d", ":", " ", "y", " ", "m", "o", "d", "i", "f", "i", "e", "d", ":">>
    /\ Len(compacted) >= 2
    /\ compacted[Len(compacted) - 1] = <<"m", "o", "d", "i", "f", "i", "e", "d", ":", "x">>
    /\ compacted[Len(compacted)] = <<"D", " ", "y", " ", "m", "o", "d", "i", "f", "i", "e", "d", ":">>

-----------------------------------------------------------------------------

\* The deduplication scan is about to run an iteration of its outer loop.
ScanPending ==
    pc = "dedup" /\ Len(filtered_lines) > 2 /\ i < Len(filtered_lines)

\* The iteration leaves the scan position at least one line further on, and
\* within the input.
ScanAdvances ==
    /\ dedup_iteration(filtered_lines, i, similar_out)[1] > i
    /\ dedup_iteration(filtered_lines, i, similar_out)[1] <= Len(filtered_lines)

\* C6: filter_output is total: for every input and every category, known
\* or not, the stages run to their end and a text is returned; every
\* iteration of the outer loop of the deduplication scan moves the scan
\* position forward by at least one line.
C6_Total ==
    /\ <>(pc = "done")
    /\ [](ScanPending => ScanAdvances)
    /\ [][(pc = "dedup" /\ pc' = "dedup") => i' > i]_vars
    /\ [](pc = "done" => result \in Seq(STRING))

\* A call with a category that has no patterns of its own has returned a
\* text, after a deduplication scan over three lines.
C6_Witness ==
    /\ pc = "done"
    /\ category = "generic"
    /\ i >= 3
    /\ Len(result) > 0

-----------------------------------------------------------------------------

\* The words of a status change.
StatusWords ==
    { <<"c", "r", "e", "a", "t", "e", "d">>, <<"d", "e", "l", "e", "t", "e", "d">>, <<"m", "o", "d", "i", "f", "i", "e", "d">>, <<"c", "h", "a", "n", "g", "e", "d">>, <<"a", "d", "d", "e", "d">>,
      <<"r", "e", "m", "o", "v", "e", "d">>, <<"u", "p", "d", "a", "t", "e", "d">>, <<"c", "o", "p", "i", "e", "d">>, <<"m", "o", "v", "e", "d">>, <<"r", "e", "n", "a", "m", "e", "d">> }

\* The line begins, after optional whitespace, with a status word followed
\* by a colon, in any letter case.
StatusChange(line) ==
    \E w \in StatusWords : startswith(lower(lstrip(line)), w \o <<":">>)

\* C7: in the line-filter stage of filter_output, a line that matches a
\* status-change pattern is discarded for every category other than 'git';
\* for 'git' it is passed on to the deduplicator whenever no universal and
\* no git-specific pattern is found in it.
C7_StatusLines ==
    pc = "dedup" =>
        \A n \in DOMAIN lines :
            StatusChange(lines[n]) =>
                IF category # "git"
                THEN lines[n] \notin Range(filtered_lines)
                ELSE ~skip_line(lines[n], SKIP_PATTERNS \o CATEGORY_PATTERNS_git)
                         => lines[n] \in Range(filtered_lines)

\* A call with category 'git' has passed a status-change line on to the
\* deduplicator.
C7_Witness ==
    /\ pc = "dedup"
    /\ category = "git"
    /\ \E n \in DOMAIN lines :
           StatusChange(lines[n]) /\ lines[n] \in Range(filtered_lines)

-----------------------------------------------------------------------------

\* C8: for every text t and every category, preprocess_output of
\* ESC[31m + t + ESC[0m equals preprocess_output of t, and filter_output of
\* the two is equal too.
C8_AnsiInvisible ==
    /\ pc \in {"ansi_filter", "done"} => ansi.pre_wrapped = ansi.pre_bare
    /\ pc = "done" => ansi.out_wrapped = ansi.out_bare

\* Both calls have returned the same text, not empty, for a text that has
\* an escape character of its own.
C8_Witness ==
    /\ pc = "done"
    /\ "ESC" \in Range(output)
    /\ Len(ansi.out_wrapped) > 0
    /\ Len(ansi.pre_wrapped) > 0
    /\ ansi.out_wrapped = ansi.out_bare

-----------------------------------------------------------------------------

\* ratio() of a and b is at least num / den.
RatioAtLeast(a, b, num, den) ==
    \/ Len(a) + Len(b) = 0
    \/ 2 * matching_chars(a, b, 0, Len(a), 0, Len(b)) * den
           >= num * (Len(a) + Len(b))

\* C9: in deduplicate_similar_lines, the run that starts at a non-blank
\* anchor at position i is the lines i..j-1, with j the first position
\* after i whose line is blank or has a ratio to the anchor (not to the
\* line before it) below the threshold 0.8, or the end of the input; a
\* ratio equal to the threshold keeps the line in the run; j is the next
\* scan position, and a blank line there is emitted as it is.
C9_RunExtent ==
    [][ /\ (pc = "dedup" /\ pc' = "dedup" /\ ~IsBlank(filtered_lines[i + 1]))
             => LET anchor == filtered_lines[i + 1]
                    j == i'
                IN  /\ i < j
                    /\ j <= Len(filtered_lines)
                    /\ \A n \in (i + 2)..j :
                           /\ ~IsBlank(filtered_lines[n])
                           /\ RatioAtLeast(anchor, filtered_lines[n], 4, 5)
                    /\ j < Len(filtered_lines)
                         => \/ IsBlank(filtered_lines[j + 1])
                            \/ ~RatioAtLeast(anchor, filtered_lines[j + 1], 4, 5)
        /\ (pc = "dedup" /\ pc' = "dedup" /\ IsBlank(filtered_lines[i + 1]))
             => /\ i' = i + 1
                /\ similar_out' = Append(similar_out, filtered_lines[i + 1])
      ]_vars

\* The first run of the scan is 'ab', 'abc': the ratio of 'abc' to the
\* anchor is exactly 0.8, the ratio of the next line 'abcd' to the anchor
\* is below it although its ratio to 'abc' is above it.
C9_Witness ==
    /\ pc = "dedup"
    /\ Len(filtered_lines) >= 3
    /\ filtered_lines[1] = <<"a", "b">>
    /\ filtered_lines[2] = <<"a", "b", "c">>
    /\ filtered_lines[3] = <<"a", "b", "c", "d">>
    /\ 2 * matching_chars(<<"a", "b">>, <<"a", "b", "c">>, 0, 2, 0, 3) * 5 = 4 * 5
    /\ i = 2
    /\ similar_out = <<<<"a", "b">>, <<"a", "b", "c">>>>

-----------------------------------------------------------------------------

\* The Normal-state rule keeps the line: it is not blank, and it mentions
\* 'failed' or 'error' in any letter case, or it does not mention 'passed'
\* and is neither a '=' separator nor a 'collected' line.
NormalRuleKeeps(line) ==
    /\ ~IsBlank(line)
    /\ \/ contains(lower(line), <<"f", "a", "i", "l", "e", "d">>)
       \/ contains(lower(line), <<"e", "r", "r", "o", "r">>)
       \/ /\ ~contains(lower(line), <<"p", "a", "s", "s", "e", "d">>)
          /\ ~(\A n \in DOMAIN strip(line) : strip(line)[n] = "=")
          /\ ~startswith(strip(line), <<"c", "o", "l", "l", "e", "c", "t", "e", "d">>)

\* C10: in compact_pytest_output a failure block ends at the first
\* non-blank, non-indented line that is not itself a failure trigger, and
\* the Normal-state rule holds for that line and every line after it: a
\* line the rule keeps is appended to the output, the summary line that
\* directly follows a failure block included.
C10_NormalRulesAfterBlock ==
    [][ (/\ pc = "pytest"
         /\ pc' = "pytest"
         /\ ~MentionsTrigger(lines[i + 1])
         /\ in_failure => (~IsBlank(lines[i + 1]) /\ ~startswith(lines[i + 1], <<" ">>))
         /\ NormalRuleKeeps(lines[i + 1]))
          => /\ ~in_failure'
             /\ compacted' = Append(compacted, lines[i + 1])
      ]_vars

=============================================================================
